---- MODULE Spec2Model ----
(***************************************************************************)
(* Coffee-shop drinks API (backend/src/api.py): five routes over one table *)
(* of drinks, four of them behind the requires_auth permission gate.       *)
(*                                                                         *)
(* Strings are sequences of characters, JSON values are tagged records,    *)
(* the recipe column is a sequence of JSON tokens written by json.dumps    *)
(* and read back by json.loads.                                            *)
(***************************************************************************)
EXTENDS Integers, Sequences, FiniteSets, TLC

\* ------------------------------------------------------------------ bounds
\* Largest primary key the table hands out (ids are 1..MaxId).
MaxId == 2
\* Longest recipe list a request carries.
MaxRecipeLen == 2

\* ------------------------------------------------------------ JSON values
\* A scalar JSON value as request.get_json() yields it; t = "none" is Python's
\* None, which is also what dict.get returns for an absent key.
None == [t |-> "none", s |-> <<>>, n |-> 0]
Str(chars) == [t |-> "str", s |-> chars, n |-> 0]
Num(k) == [t |-> "num", s |-> <<>>, n |-> k]

\* Python truthiness of a scalar: None, "" and 0 are falsy.
Truthy(v) ==
    CASE v.t = "none" -> FALSE
      [] v.t = "str" -> v.s # <<>>
      [] v.t = "num" -> v.n # 0
      [] OTHER -> TRUE

\* A recipe entry: a JSON object with the keys name, color, parts (an absent
\* key holds None), or a JSON scalar that is no object at all.
Obj(name, color, parts) ==
    [t |-> "obj", n |-> 0, name |-> name, color |-> color, parts |-> parts]
Scalar(k) == [t |-> "num", n |-> k, name |-> None, color |-> None, parts |-> None]

\* A recipe value: absent (None), a JSON string, or a JSON list of entries.
NoRecipe == [t |-> "none", items |-> <<>>]
StrRecipe == [t |-> "str", items |-> <<>>]
List(items) == [t |-> "list", items |-> items]

\* ------------------------------------------------------------ json.dumps
Tok(p) == [t |-> p, s |-> <<>>, n |-> 0]
K_name == <<"n", "a", "m", "e">>
K_color == <<"c", "o", "l", "o", "r">>
K_parts == <<"p", "a", "r", "t", "s">>

\* key: value for a present key, nothing for an absent one
DumpPair(key, v) == IF v.t = "none" THEN <<>> ELSE << <<Str(key), Tok(":"), v>> >>

RECURSIVE JoinComma(_)
JoinComma(parts) ==
    IF parts = <<>> THEN <<>>
    ELSE IF Len(parts) = 1 THEN parts[1]
    ELSE parts[1] \o <<Tok(",")>> \o JoinComma(Tail(parts))

DumpEntry(e) ==
    IF e.t = "obj"
    THEN <<Tok("{")>>
         \o JoinComma(DumpPair(K_name, e.name) \o DumpPair(K_color, e.color)
                      \o DumpPair(K_parts, e.parts))
         \o <<Tok("}")>>
    ELSE <<Num(e.n)>>

\* json.dumps of a list of recipe entries: the text stored in Drink.recipe
json_dumps(items) ==
    <<Tok("[")>> \o JoinComma([i \in 1..Len(items) |-> DumpEntry(items[i])])
    \o <<Tok("]")>>

\* ------------------------------------------------------------ json.loads
SetKey(obj, key, v) ==
    IF key = K_name THEN [obj EXCEPT !.name = v]
    ELSE IF key = K_color THEN [obj EXCEPT !.color = v]
    ELSE IF key = K_parts THEN [obj EXCEPT !.parts = v]
    ELSE obj

\* reads key : value pairs from toks[i] up to the closing brace
RECURSIVE ParseObj(_, _, _)
ParseObj(toks, i, obj) ==
    IF i > Len(toks) THEN [e |-> obj, next |-> i]
    ELSE IF toks[i].t = "}" THEN [e |-> obj, next |-> i + 1]
    ELSE IF toks[i].t = "," THEN ParseObj(toks, i + 1, obj)
    ELSE ParseObj(toks, i + 3, SetKey(obj, toks[i].s, toks[i + 2]))

\* reads list items from toks[i] up to the closing bracket
RECURSIVE ParseItems(_, _, _)
ParseItems(toks, i, acc) ==
    IF i > Len(toks) THEN acc
    ELSE IF toks[i].t = "]" THEN acc
    ELSE IF toks[i].t = "," THEN ParseItems(toks, i + 1, acc)
    ELSE IF toks[i].t = "{"
         THEN LET r == ParseObj(toks, i + 1, Obj(None, None, None))
              IN ParseItems(toks, r.next, Append(acc, r.e))
    ELSE ParseItems(toks, i + 1, Append(acc, Scalar(toks[i].n)))

\* json.loads of the stored recipe text
json_loads(toks) == ParseItems(toks, 2, <<>>)

\* ----------------------------------------------------------- request inputs
T_Tea == <<"T", "e", "a">>
T_tea == <<"t", "e", "a">>
T_Rum == <<"R", "u", "m">>
N_ice == <<"i", "c", "e">>
N_milk == <<"m", "i", "l", "k">>
C_red == <<"r", "e", "d">>

\* the title key of a request body: absent, empty, or a title
TitleInputs == {None, Str(<<>>), Str(T_Tea), Str(T_tea), Str(T_Rum)}

GoodEntries == {Obj(Str(nm), Str(C_red), Num(1)) : nm \in {N_ice, N_milk}}
\* one key of a good entry absent or empty
DefectiveEntries ==
    LET e == Obj(Str(N_ice), Str(C_red), Num(1))
    IN {[e EXCEPT !.name = None], [e EXCEPT !.name = Str(<<>>)],
        [e EXCEPT !.color = None], [e EXCEPT !.color = Str(<<>>)],
        [e EXCEPT !.parts = None], [e EXCEPT !.parts = Num(0)]}
EntryInputs == GoodEntries \cup DefectiveEntries \cup {Scalar(5)}

SeqsUpTo(S, n) == UNION {[1..k -> S] : k \in 0..n}
RecipeInputs ==
    {NoRecipe, StrRecipe} \cup {List(items) : items \in SeqsUpTo(EntryInputs, MaxRecipeLen)}

\* the JSON object a POST or PATCH request carries
Payloads == [title : TitleInputs, recipe : RecipeInputs]

DrinkIds == 1..MaxId

AllPermissions == {"get:drinks-detail", "post:drinks", "patch:drinks", "delete:drinks"}
PermissionInputs == {{}, {"get:drinks-detail"}, AllPermissions}
TokenInputs == {"malformed", "unknown_key", "bad_signature", "expired", "bad_claims", "valid"}
\* the Authorization header of a request and the token it carries
AuthInputs ==
    {[header |-> h, token |-> "none", has_permissions |-> FALSE, permissions |-> {}] :
        h \in {"absent", "malformed"}}
    \cup {[header |-> "bearer", token |-> tk, has_permissions |-> FALSE, permissions |-> {}] :
            tk \in TokenInputs}
    \cup {[header |-> "bearer", token |-> tk, has_permissions |-> TRUE, permissions |-> ps] :
            tk \in TokenInputs, ps \in PermissionInputs}

\* ------------------------------------------------------ authorization gate
AuthError(status, code) == [ok |-> FALSE, status |-> status, code |-> code]
AuthPassed == [ok |-> TRUE, status |-> 0, code |-> "none"]

\* Token Decoder: the bearer token of the Authorization header
get_token_auth_header(auth) ==
    IF auth.header = "absent" THEN AuthError(401, "authorization_header_missing")
    ELSE IF auth.header = "malformed" THEN AuthError(401, "invalid_header")
    ELSE AuthPassed

\* Token Validator: key lookup, signature, expiry, issuer and audience
verify_decode_jwt(auth) ==
    CASE auth.token = "malformed" -> AuthError(401, "invalid_header")
      [] auth.token = "unknown_key" -> AuthError(401, "key_not_found")
      [] auth.token = "bad_signature" -> AuthError(401, "invalid_signature")
      [] auth.token = "expired" -> AuthError(401, "token_expired")
      [] auth.token = "bad_claims" -> AuthError(401, "invalid_claims")
      [] OTHER -> AuthPassed

\* Permission Checker
check_permissions(permission, auth) ==
    IF permission = "" THEN AuthPassed
    ELSE IF ~auth.has_permissions THEN AuthError(403, "permissions_missing")
    ELSE IF permission \notin auth.permissions THEN AuthError(403, "forbidden")
    ELSE AuthPassed

\* the decorator: decoder, then validator, then permission checker
requires_auth(permission, auth) ==
    LET h == get_token_auth_header(auth)
        v == verify_decode_jwt(auth)
    IN IF ~h.ok THEN h
       ELSE IF ~v.ok THEN v
       ELSE check_permissions(permission, auth)

\* ------------------------------------------------------------- drinks table
\* The table is a function from the ids in use to rows [title, recipe], the
\* recipe being the json.dumps text.
Row(title, recipe) == [title |-> title, recipe |-> recipe]

\* SQL lower(): upper-case letters to lower case, everything else unchanged
LowerChar(c) ==
    CASE c = "T" -> "t"
      [] c = "R" -> "r"
      [] c = "E" -> "e"
      [] c = "A" -> "a"
      [] c = "U" -> "u"
      [] c = "M" -> "m"
      [] OTHER -> c
func_lower(chars) == [i \in 1..Len(chars) |-> LowerChar(chars[i])]

\* Drink.query.filter(func.lower(Drink.title) == func.lower(title)): matching ids
TitleMatches(store, title) ==
    {i \in DOMAIN store : func_lower(store[i].title) = func_lower(title)}

\* Drink.query.all(), rows in primary-key order, as the sequence of their ids
RECURSIVE SortedIds(_)
SortedIds(ids) ==
    IF ids = {} THEN <<>>
    ELSE LET m == CHOOSE i \in ids : \A j \in ids : i <= j
         IN <<m>> \o SortedIds(ids \ {m})

\* Drink.short(): recipe entries expose color and parts only
ShortEntry(e) == Obj(None, e.color, e.parts)
short(id, row) ==
    LET r == json_loads(row.recipe)
    IN [id |-> id, title |-> row.title,
        recipe |-> [i \in 1..Len(r) |-> ShortEntry(r[i])]]

\* Drink.long(): the full recipe entries
long(id, row) == [id |-> id, title |-> row.title, recipe |-> json_loads(row.recipe)]

AllShort(store) ==
    LET ids == SortedIds(DOMAIN store)
    IN [k \in 1..Len(ids) |-> short(ids[k], store[ids[k]])]
AllLong(store) ==
    LET ids == SortedIds(DOMAIN store)
    IN [k \in 1..Len(ids) |-> long(ids[k], store[ids[k]])]

\* Drink.title is a unique column: a write that would leave two rows with the
\* same title (compared as stored, case and all) fails
title_taken(store, id, title) == \E i \in DOMAIN store \ {id} : store[i].title = title

\* Drink.insert(), Drink.update(), Drink.delete()
db_insert(store, id, row) == [i \in DOMAIN store \cup {id} |-> IF i = id THEN row ELSE store[i]]
db_update(store, id, row) == [store EXCEPT ![id] = row]
db_delete(store, id) == [i \in DOMAIN store \ {id} |-> store[i]]

\* ---------------------------------------------------------------- responses
Response(status, body) == [status |-> status, body |-> body]

ErrorMessage(status) ==
    CASE status = 400 -> "Bad Request"
      [] status = 401 -> "Unauthorized"
      [] status = 403 -> "Forbidden"
      [] status = 404 -> "Resource not found"
      [] status = 405 -> "Method not allowed"
      [] status = 422 -> "Unprocessable"
      [] OTHER -> "Unknown server error"

\* abort(status) answered by the errorhandler registered for that status
abort(status) ==
    Response(status, [success |-> FALSE, error |-> status, message |-> ErrorMessage(status)])

\* errorhandler(AuthError)
auth_error(error) ==
    Response(error.status,
             [success |-> FALSE, error |-> error.status, error_code |-> error.code,
              message |-> "auth"])

\* the route bindings with POST bound to the read permission
RequiredPermission_post_reads(route) ==
    CASE route = "GET /drinks-detail" -> "get:drinks-detail"
      [] route = "POST /drinks" -> "get:drinks-detail"
      [] route = "PATCH /drinks/<id>" -> "patch:drinks"
      [] route = "DELETE /drinks/<id>" -> "delete:drinks"
      [] OTHER -> ""

\* the permission each protected route is bound to
RequiredPermission(route) ==
    CASE route = "GET /drinks-detail" -> "get:drinks-detail"
      [] route = "POST /drinks" -> "post:drinks"
      [] route = "PATCH /drinks/<id>" -> "patch:drinks"
      [] route = "DELETE /drinks/<id>" -> "delete:drinks"
      [] OTHER -> ""

\* the handler's local variable data: not assigned until request.get_json() runs
Unread == [read |-> FALSE, title |-> None, recipe |-> NoRecipe]
Read(payload) == [read |-> TRUE, title |-> payload.title, recipe |-> payload.recipe]

\* what one request leaves behind: the table, the response, the handler body
\* that ran ("none" when the gate refused) and the handler's data
Outcome(store, response, executed, data) ==
    [drinks |-> store, response |-> response, executed |-> executed, data |-> data]

\* ------------------------------------------------------ check_drink_attribute
\* the entry check without its color test
EntryPasses_no_color(r) == Truthy(r.name) /\ Truthy(r.parts)

EntryPasses(r) == Truthy(r.name) /\ Truthy(r.parts) /\ Truthy(r.color)

\* 0 when the payload passes, 422 where the code aborts, 500 where r.get raises
\* AttributeError on a recipe entry that is no object
check_drink_attribute(data) ==
    IF ~Truthy(data.title) \/ data.recipe.t = "none"
       \/ (data.recipe.t = "list" /\ data.recipe.items = <<>>)
       \/ data.recipe.t # "list"
    THEN 422
    ELSE LET items == data.recipe.items
             stops == {i \in 1..Len(items) : items[i].t # "obj" \/ ~EntryPasses(items[i])}
         IN IF stops = {} THEN 0
            ELSE LET first == CHOOSE i \in stops : \A j \in stops : i <= j
                 IN IF items[first].t # "obj" THEN 500 ELSE 422

\* ------------------------------------------------------------------ handlers
get_drinks_response(store) ==
    Response(200, [sucess |-> TRUE, drinks |-> AllShort(store)])

get_drinks(store) ==
    Outcome(store, get_drinks_response(store), "get_drinks", Unread)

get_drinks_detail(store, auth) ==
    LET gate == requires_auth(RequiredPermission("GET /drinks-detail"), auth)
    IN IF ~gate.ok THEN Outcome(store, auth_error(gate), "none", Unread)
       ELSE Outcome(store, Response(200, [sucess |-> TRUE, drinks |-> AllLong(store)]),
                    "get_drinks_detail", Unread)

\* post_drink storing the title in lower case
post_drink_lowers_title(store, auth, payload, new_id, commit_ok) ==
    LET gate == requires_auth(RequiredPermission("POST /drinks"), auth)
        data == Read(payload)
        checked == check_drink_attribute(data)
        found == TitleMatches(store, data.title.s)
        new_drink == Row(func_lower(data.title.s), json_dumps(data.recipe.items))
    IN IF ~gate.ok THEN Outcome(store, auth_error(gate), "none", Unread)
       ELSE IF checked # 0 THEN Outcome(store, abort(checked), "post_drink", data)
       ELSE IF Cardinality(found) > 1 THEN Outcome(store, abort(500), "post_drink", data)
       ELSE IF found # {} THEN Outcome(store, abort(422), "post_drink", data)
       ELSE IF ~commit_ok \/ title_taken(store, new_id, new_drink.title)
            THEN Outcome(store, abort(400), "post_drink", data)
       ELSE Outcome(db_insert(store, new_id, new_drink),
                    Response(200, [success |-> TRUE,
                                   drinks |-> <<short(new_id, new_drink)>>]),
                    "post_drink", data)

\* new_id is the key the table assigns on insert, commit_ok whether the write
\* otherwise goes through
post_drink(store, auth, payload, new_id, commit_ok) ==
    LET gate == requires_auth(RequiredPermission("POST /drinks"), auth)
        data == Read(payload)
        checked == check_drink_attribute(data)
        found == TitleMatches(store, data.title.s)
        new_drink == Row(data.title.s, json_dumps(data.recipe.items))
    IN IF ~gate.ok THEN Outcome(store, auth_error(gate), "none", Unread)
       ELSE IF checked # 0 THEN Outcome(store, abort(checked), "post_drink", data)
       \* one_or_none() raises MultipleResultsFound on more than one row
       ELSE IF Cardinality(found) > 1 THEN Outcome(store, abort(500), "post_drink", data)
       ELSE IF found # {} THEN Outcome(store, abort(422), "post_drink", data)
       ELSE IF ~commit_ok \/ title_taken(store, new_id, new_drink.title)
            THEN Outcome(store, abort(400), "post_drink", data)
       ELSE Outcome(db_insert(store, new_id, new_drink),
                    Response(200, [success |-> TRUE,
                                   drinks |-> <<short(new_id, new_drink)>>]),
                    "post_drink", data)

\* patch_drink with check_drink_attribute moved above the lookup
patch_drink_checks_first(store, auth, drink_id, payload, commit_ok) ==
    LET gate == requires_auth(RequiredPermission("PATCH /drinks/<id>"), auth)
        data == Read(payload)
        checked == check_drink_attribute(data)
        updated == db_update(store, drink_id, Row(data.title.s, json_dumps(data.recipe.items)))
    IN IF ~gate.ok THEN Outcome(store, auth_error(gate), "none", Unread)
       ELSE IF checked # 0 THEN Outcome(store, abort(checked), "patch_drink", data)
       ELSE IF drink_id \notin DOMAIN store THEN Outcome(store, abort(404), "patch_drink", data)
       ELSE IF ~commit_ok \/ title_taken(store, drink_id, data.title.s)
            THEN Outcome(store, abort(400), "patch_drink", data)
       ELSE Outcome(updated, get_drinks_response(updated), "patch_drink", data)

patch_drink(store, auth, drink_id, payload, commit_ok) ==
    LET gate == requires_auth(RequiredPermission("PATCH /drinks/<id>"), auth)
        data == Read(payload)
        checked == check_drink_attribute(data)
        updated == db_update(store, drink_id, Row(data.title.s, json_dumps(data.recipe.items)))
    IN IF ~gate.ok THEN Outcome(store, auth_error(gate), "none", Unread)
       ELSE IF drink_id \notin DOMAIN store THEN Outcome(store, abort(404), "patch_drink", data)
       ELSE IF checked # 0 THEN Outcome(store, abort(checked), "patch_drink", data)
       ELSE IF ~commit_ok \/ title_taken(store, drink_id, data.title.s)
            THEN Outcome(store, abort(400), "patch_drink", data)
       ELSE Outcome(updated, get_drinks_response(updated), "patch_drink", data)

delete_drink(store, auth, drink_id, commit_ok) ==
    LET gate == requires_auth(RequiredPermission("DELETE /drinks/<id>"), auth)
    IN IF ~gate.ok THEN Outcome(store, auth_error(gate), "none", Unread)
       \* get_or_404 raises NotFound inside the try; except Exception answers 500
       ELSE IF drink_id \notin DOMAIN store THEN Outcome(store, abort(500), "delete_drink", Unread)
       ELSE IF ~commit_ok THEN Outcome(store, abort(500), "delete_drink", Unread)
       ELSE Outcome(db_delete(store, drink_id),
                    Response(200, [success |-> TRUE, delete |-> drink_id]),
                    "delete_drink", Unread)

\* after_request: every response leaves with the CORS headers
after_request(response) ==
    [status |-> response.status, body |-> response.body,
     headers |-> {"Access-Control-Allow-Headers", "Access-Control-Allow-Methods"}]

\* ------------------------------------------------------------------- state
VARIABLES
    drinks,     \* the drinks table
    before,     \* the table as the request being served found it
    request,    \* the request being served: route, drink_id, auth
    data,       \* the handler's data
    response,   \* the response to the request being served
    executed,   \* the handler body that ran for it, "none" if the gate refused
    lastPost    \* the drink the latest successful POST created, until patched or deleted

vars == <<drinks, before, request, data, response, executed, lastPost>>

Request(route, drink_id, auth) == [route |-> route, drink_id |-> drink_id, auth |-> auth]
NoAuth == [header |-> "absent", token |-> "none", has_permissions |-> FALSE, permissions |-> {}]
NoRequest == Request("none", 0, NoAuth)
NoResponse == [status |-> 0, body |-> [success |-> FALSE], headers |-> {}]
NoPost == [id |-> 0, title |-> <<>>, recipe |-> <<>>]
EmptyTable == [i \in {} |-> Row(<<>>, <<>>)]

\* db_drop_and_create_all() has run: the table is empty, no request is being served
Init ==
    /\ drinks = EmptyTable
    /\ before = EmptyTable
    /\ request = NoRequest
    /\ data = Unread
    /\ response = NoResponse
    /\ executed = "none"
    /\ lastPost = NoPost

Idle == request.route = "none"

\* one request served from arrival to response
Serve(req, out) ==
    /\ before' = drinks
    /\ request' = req
    /\ drinks' = out.drinks
    /\ data' = out.data
    /\ response' = after_request(out.response)
    /\ executed' = out.executed

\* The gate refuses before request.get_json() runs, so the body of a refused
\* request is never read: refused requests carry one of two bodies.
EmptyPayload == [title |-> None, recipe |-> NoRecipe]
GoodPayload == [title |-> Str(T_Tea), recipe |-> List(<<Obj(Str(N_ice), Str(C_red), Num(1))>>)]
Bodies(route, auth) ==
    IF requires_auth(RequiredPermission(route), auth).ok THEN Payloads
    ELSE {EmptyPayload, GoodPayload}

GetDrinks ==
    /\ Idle
    /\ \E auth \in AuthInputs :
           /\ Serve(Request("GET /drinks", 0, auth), get_drinks(drinks))
           /\ UNCHANGED lastPost

GetDrinksDetail ==
    /\ Idle
    /\ \E auth \in AuthInputs :
           /\ Serve(Request("GET /drinks-detail", 0, auth), get_drinks_detail(drinks, auth))
           /\ UNCHANGED lastPost

FreeIds == DrinkIds \ DOMAIN drinks

\* The key and the fate of the write are the table's choice, made only when the
\* handler gets as far as the write (a request that does would answer 400 on a
\* failed commit). A full table refuses the insert.
PostDrink ==
    /\ Idle
    /\ \E auth \in AuthInputs :
         \E payload \in Bodies("POST /drinks", auth) :
           LET writes == post_drink(drinks, auth, payload, 0, FALSE).response.status = 400
           IN \E new_id \in (IF writes /\ FreeIds # {} THEN FreeIds ELSE {0}),
                 commit_ok \in (IF writes /\ FreeIds # {} THEN BOOLEAN ELSE {FALSE}) :
               LET out == post_drink(drinks, auth, payload, new_id, commit_ok)
               IN /\ Serve(Request("POST /drinks", 0, auth), out)
                  /\ lastPost' = IF out.response.status = 200
                                 THEN [id |-> new_id, title |-> payload.title.s,
                                       recipe |-> payload.recipe.items]
                                 ELSE lastPost

PatchDrink ==
    /\ Idle
    /\ \E auth \in AuthInputs, drink_id \in DrinkIds :
         \E payload \in Bodies("PATCH /drinks/<id>", auth) :
           LET writes == patch_drink(drinks, auth, drink_id, payload, FALSE).response.status = 400
           IN \E commit_ok \in (IF writes THEN BOOLEAN ELSE {FALSE}) :
               LET out == patch_drink(drinks, auth, drink_id, payload, commit_ok)
               IN /\ Serve(Request("PATCH /drinks/<id>", drink_id, auth), out)
                  /\ lastPost' = IF out.response.status = 200 /\ drink_id = lastPost.id
                                 THEN NoPost ELSE lastPost

DeleteDrink ==
    /\ Idle
    /\ \E auth \in AuthInputs, drink_id \in DrinkIds, commit_ok \in BOOLEAN :
           LET out == delete_drink(drinks, auth, drink_id, commit_ok)
           IN /\ Serve(Request("DELETE /drinks/<id>", drink_id, auth), out)
              /\ lastPost' = IF out.response.status = 200 /\ drink_id = lastPost.id
                             THEN NoPost ELSE lastPost

\* The response has been sent and the request context is gone: the server
\* waits for the next request.
Teardown ==
    /\ ~Idle
    /\ before' = drinks
    /\ request' = NoRequest
    /\ data' = Unread
    /\ response' = NoResponse
    /\ executed' = "none"
    /\ UNCHANGED <<drinks, lastPost>>

Next ==
    \/ GetDrinks
    \/ GetDrinksDetail
    \/ PostDrink
    \/ PatchDrink
    \/ DeleteDrink
    \/ Teardown

Spec == Init /\ [][Next]_vars

\* ------------------------------------------------------------- properties
\* the request being served carries a valid, unexpired bearer token that holds
\* the permission
HoldsPermission(permission) ==
    /\ request.auth.header = "bearer"
    /\ request.auth.token = "valid"
    /\ request.auth.has_permissions
    /\ permission \in request.auth.permissions

ProtectedRoutes ==
    {<<"GET /drinks-detail", "get:drinks-detail">>, <<"POST /drinks", "post:drinks">>,
     <<"PATCH /drinks/<id>", "patch:drinks">>, <<"DELETE /drinks/<id>", "delete:drinks">>}

HasKey(body, key) == key \in DOMAIN body

\* present and not the empty string
NonEmpty(v) == v.t # "none" /\ ~(v.t = "str" /\ v.s = <<>>)

\* the body read by the handler fails attribute validation: title missing or
\* empty; recipe missing, empty or not a list; or some recipe entry missing or
\* (a JSON object) missing or having an empty name, color or parts
FailsValidation(d) ==
    \/ ~NonEmpty(d.title)
    \/ d.recipe.t # "list"
    \/ d.recipe.items = <<>>
    \/ \E k \in 1..Len(d.recipe.items) :
          LET e == d.recipe.items[k]
          IN /\ e.t = "obj"
             /\ ~NonEmpty(e.name) \/ ~NonEmpty(e.color) \/ ~NonEmpty(e.parts)
                \/ e.parts = Num(0)

\* the body is a valid drink: a title, and a non-empty list of objects that
\* each have a name, a color and parts
ValidPayload(d) ==
    /\ NonEmpty(d.title)
    /\ d.recipe.t = "list"
    /\ d.recipe.items # <<>>
    /\ \A k \in 1..Len(d.recipe.items) :
          LET e == d.recipe.items[k]
          IN /\ e.t = "obj"
             /\ NonEmpty(e.name) /\ NonEmpty(e.color) /\ NonEmpty(e.parts)
             /\ e.parts # Num(0)

\* C1: on a protected route whose gate fails (no header, invalid or expired
\* token, or the route's permission not held) no handler body runs, the table
\* is unchanged, and the response is the failure's 401 or 403 with
\* success = false, error = that status and an error_code.
C1_GateBeforeHandler ==
    \A r \in ProtectedRoutes :
        (request.route = r[1] /\ ~HoldsPermission(r[2]))
        => /\ executed = "none"
           /\ drinks = before
           /\ response.status =
                IF request.auth.header = "bearer" /\ request.auth.token = "valid"
                THEN 403 ELSE 401
           /\ HasKey(response.body, "success") /\ response.body.success = FALSE
           /\ HasKey(response.body, "error") /\ response.body.error = response.status
           /\ HasKey(response.body, "error_code")

\* a POST by a token holding only get:drinks-detail is refused with 403 while
\* the table holds a drink
C1_Witness ==
    /\ request.route = "POST /drinks"
    /\ request.auth.token = "valid"
    /\ request.auth.permissions = {"get:drinks-detail"}
    /\ response.status = 403
    /\ executed = "none"
    /\ DOMAIN drinks # {}

\* C2: an authorized DELETE of an id no stored drink has answers 404 and leaves
\* the table unchanged.
C2_DeleteUnknownIs404 ==
    (/\ request.route = "DELETE /drinks/<id>"
     /\ HoldsPermission("delete:drinks")
     /\ request.drink_id \notin DOMAIN before)
    => response.status = 404 /\ drinks = before

\* C3: an authorized POST of an otherwise valid payload whose title equals,
\* ignoring case, the title of one or more stored drinks answers 422 and
\* leaves the table unchanged.
C3_DuplicateTitleIs422 ==
    (/\ request.route = "POST /drinks"
     /\ HoldsPermission("post:drinks")
     /\ data.read
     /\ ValidPayload(data)
     /\ \E i \in DOMAIN before : func_lower(before[i].title) = func_lower(data.title.s))
    => response.status = 422 /\ drinks = before

\* C4: no two distinct stored drinks have titles equal ignoring case.
C4_TitlesUniqueIgnoringCase ==
    \A i, j \in DOMAIN drinks :
        i # j => func_lower(drinks[i].title) # func_lower(drinks[j].title)

\* C5: every stored drink has a non-empty title and a recipe that is a
\* non-empty list whose every entry has a non-empty name, color and parts.
C5_StoredDrinksWellFormed ==
    \A i \in DOMAIN drinks :
        LET recipe == json_loads(drinks[i].recipe)
        IN /\ drinks[i].title # <<>>
           /\ recipe # <<>>
           /\ \A k \in 1..Len(recipe) :
                /\ recipe[k].t = "obj"
                /\ NonEmpty(recipe[k].name)
                /\ NonEmpty(recipe[k].color)
                /\ NonEmpty(recipe[k].parts)

\* a PATCH has just stored a recipe of two entries
C5_Witness ==
    /\ request.route = "PATCH /drinks/<id>"
    /\ response.status = 200
    /\ drinks # before
    /\ Len(json_loads(drinks[request.drink_id].recipe)) = 2

\* C6: an authorized POST, or an authorized PATCH of an existing id, whose
\* payload fails attribute validation answers 422 and leaves the table
\* unchanged.
C6_InvalidPayloadIs422 ==
    (/\ \/ request.route = "POST /drinks" /\ HoldsPermission("post:drinks")
        \/ /\ request.route = "PATCH /drinks/<id>"
           /\ HoldsPermission("patch:drinks")
           /\ request.drink_id \in DOMAIN before
     /\ data.read
     /\ FailsValidation(data))
    => response.status = 422 /\ drinks = before

\* C7: an authorized PATCH of an id no stored drink has answers 404 whatever
\* the payload, also one that fails attribute validation, and leaves the table
\* unchanged.
C7_PatchUnknownIs404 ==
    (/\ request.route = "PATCH /drinks/<id>"
     /\ HoldsPermission("patch:drinks")
     /\ request.drink_id \notin DOMAIN before)
    => response.status = 404 /\ drinks = before

\* a PATCH of an unknown id with a payload that fails validation answered 404
\* while the table holds another drink
C7_Witness ==
    /\ request.route = "PATCH /drinks/<id>"
    /\ HoldsPermission("patch:drinks")
    /\ request.drink_id \notin DOMAIN before
    /\ DOMAIN before # {}
    /\ data.read
    /\ FailsValidation(data)
    /\ response.status = 404

C9_SuccessEnvelope ==
    response.status = 200
    => HasKey(response.body, "success") /\ response.body.success = TRUE

\* C10: a successful PATCH answers with the drinks in the long representation
\* (recipe entries with their name) re-fetched after the update; GET /drinks
\* answers with short-form drinks whose recipe entries carry no name.
C10_PatchLongGetShort ==
    /\ (request.route = "PATCH /drinks/<id>" /\ response.status = 200)
       => /\ HasKey(response.body, "drinks")
          /\ Len(response.body.drinks) = Cardinality(DOMAIN drinks)
          /\ \A k \in 1..Len(response.body.drinks) :
                LET d == response.body.drinks[k]
                IN /\ d.id \in DOMAIN drinks
                   /\ d.title = drinks[d.id].title
                   /\ \A e \in 1..Len(d.recipe) : d.recipe[e].name.t # "none"
    /\ (request.route = "GET /drinks" /\ response.status = 200)
       => \A k \in 1..Len(response.body.drinks) :
             \A e \in 1..Len(response.body.drinks[k].recipe) :
                response.body.drinks[k].recipe[e].name.t = "none"

====
